---- MODULE Spec2Model ----
(***************************************************************************)
(* Model of elbow_weld_scheduler_web.py, a Streamlit script.  Streamlit    *)
(* re-executes the whole script on every interaction; the widget values    *)
(* and st.session_state.clear survive between executions, every other name *)
(* is rebuilt by the execution that assigns it.  One action is one         *)
(* interaction followed by the script execution it triggers.               *)
(*                                                                         *)
(* Times are held as integers in thousandths of a minute (the widgets give *)
(* whole minutes, the lookup table has two decimals), so that round(x, 2)  *)
(* is a real operation on them.  Binary floating-point noise is not        *)
(* modelled.                                                               *)
(***************************************************************************)
EXTENDS Integers, Sequences, FiniteSets, TLC

\* ---------------------------------------------------------------- bounds
MaxEdits == 1       \* widget changes made in one session
MaxSetup == 2       \* setup durations 1..MaxSetup (and the default) are entered
MaxStamping == 2    \* stamping durations 1..MaxStamping are entered
MaxStart == 2       \* start times 0..MaxStart (and the defaults) are entered
MaxQty == 3         \* elbow quantities 1..MaxQty are entered

\* ------------------------------------------------------ program constants
NumMachines == 4
DefaultSetup == 10
DefaultStamping == 1
DefaultWelds == 2
DefaultQuantity == 3
DefaultWeldStart == 10
DefaultCooling == 10

Minutes(n) == n * 1000

Max2(a, b) == IF a >= b THEN a ELSE b
Min2(a, b) == IF a <= b THEN a ELSE b

MachineIds == 1..NumMachines

MachineName(i) == <<"Machine 1", "Machine 2", "Machine 3", "Machine 4">>[i]

MachineNames == {MachineName(i) : i \in MachineIds}

\* round(x, 2): to the nearest hundredth of a minute, ties to the even one.
Round2(x) ==
  LET q == x \div 10
      r == x % 10
  IN  IF r < 5 THEN q * 10
      ELSE IF r > 5 THEN (q + 1) * 10
      ELSE IF q % 2 = 0 THEN q * 10 ELSE (q + 1) * 10

Row(p, d, ws, c) == [PipeSize |-> p, DR |-> d, WeldStart |-> ws, Cooling |-> c]

lookup_table ==
  << Row(16, 7, 13300, 24000), Row(16, 9, 37240, 20000),
     Row(16, 11, 9310, 16000), Row(16, 13, 6650, 13000),
     Row(18, 7, 1330, 27000),  Row(18, 9, 11970, 22000),
     Row(18, 11, 9310, 20000), Row(18, 13, 7980, 15000),
     Row(20, 7, 15960, 30000), Row(20, 9, 13300, 24000),
     Row(20, 11, 10640, 20000), Row(20, 13, 9310, 16000),
     Row(24, 7, 19950, 36000), Row(24, 9, 15960, 29000),
     Row(24, 11, 13300, 24000), Row(24, 13, 10640, 20000),
     Row(30, 7, 19950, 32000), Row(30, 9, 15960, 30000),
     Row(30, 11, 13300, 24000), Row(30, 17, 10640, 19000) >>

PipeSizes == {lookup_table[k].PipeSize : k \in DOMAIN lookup_table}
DRs == {lookup_table[k].DR : k \in DOMAIN lookup_table}
WeldOptions == {1, 2, 3, 4}

SetMin(S) == CHOOSE x \in S : \A y \in S : x <= y

\* ------------------------------------------------------------ input sets
SetupValues == (1..MaxSetup) \cup {DefaultSetup}
StampingValues == 1..MaxStamping
StartValues == (0..MaxStart) \cup {(i - 1) * DefaultSetup : i \in MachineIds}
QuantityValues == 1..MaxQty

VARIABLES
  global_setup, global_stamping,          \* widgets, whole minutes
  start_time, number_of_welds, quantity,  \* widgets, one value per machine
  pipe_size, dr,                          \* widgets, one value per machine
  clear,                                  \* st.session_state.clear
  edits,                                  \* widget changes made so far
  machines, warnings,                     \* rebuilt by every execution
  generated,                              \* the last execution ran the Generate block
  timeline_records, all_setup_intervals, all_stamping_intervals,
  machine_run_times, machine_overlap_counts, overlap_regions,
  exception,                              \* what ended the last execution
  downtime_data, total_downtime, max_end_time,
  overlap_type_durations, utilization_percent, letter_grade

widgets == <<global_setup, global_stamping, start_time, number_of_welds,
             quantity, pipe_size, dr>>
generate_names == <<timeline_records, all_setup_intervals, all_stamping_intervals,
                    machine_run_times, machine_overlap_counts, overlap_regions>>
report_names == <<downtime_data, total_downtime, max_end_time,
                  overlap_type_durations, utilization_percent, letter_grade>>
vars == <<widgets, clear, edits, machines, warnings, generated, generate_names,
          exception, report_names>>

\* ------------------------------------------------- machine configurations
Match(p, d) == SelectSeq(lookup_table, LAMBDA row : row.PipeSize = p /\ row.DR = d)

MatchPipeOnly(p, d) == SelectSeq(lookup_table, LAMBDA row : row.PipeSize = p)

LookupPipeOnly(p, d) ==
  LET match == MatchPipeOnly(p, d)
  IN  IF match = <<>>
      THEN <<Minutes(DefaultWeldStart), Minutes(DefaultCooling)>>
      ELSE <<match[1].WeldStart, match[1].Cooling>>

\* <<weld_start, cooling>> of one machine
Lookup(p, d) ==
  LET match == Match(p, d)
  IN  IF match = <<>>
      THEN <<Minutes(DefaultWeldStart), Minutes(DefaultCooling)>>
      ELSE <<match[1].WeldStart, match[1].Cooling>>

BuildMachines(gs, gst, st, nw, qty, ps, d) ==
  [i \in MachineIds |->
     LET wc == Lookup(ps[i], d[i])
     IN  [start_time |-> Minutes(st[i]),
          number_of_welds |-> nw[i],
          quantity |-> qty[i],
          step_durations |-> <<Minutes(gs), wc[1], Minutes(gst), wc[2]>>]]

Warnings(ps, d) == {i \in MachineIds : Match(ps[i], d[i]) = <<>>}

\* ------------------------------------------------------ timeline generation
step_labels == <<"Set up", "Weld start", "Stamping", "Cooling">>

EndForgetsStart(start, duration) == duration

\* end = start + duration
EndOf(start, duration) == start + duration

\* The cursor of one machine: spans[k] is <<start, end>> of the k-th execution
\* of the innermost loop body, which leaves current_time = end for the next.
RECURSIVE CursorLoop(_, _, _, _)
CursorLoop(machine, n, current_time, spans) ==
  IF Len(spans) = n THEN spans
  ELSE
    LET step_idx == Len(spans) % 4
        start == current_time
        duration == machine.step_durations[step_idx + 1]
        end == EndOf(start, duration)
    IN  CursorLoop(machine, n, end, Append(spans, <<start, end>>))

\* What the three nested loops do for machine idx (1-based), given the spans
\* of its cursor: the k-th execution of the body has
\* q = (k-1) \div (welds*4), w = ((k-1) \div 4) % welds, step_idx = (k-1) % 4.
MachineRecords(idx, machine, n, spans) ==
  LET ks == [k \in 1..n |-> k]
      triples(label) ==
        LET sel == SelectSeq(ks, LAMBDA k : step_labels[((k - 1) % 4) + 1] = label)
        IN  [j \in DOMAIN sel |-> <<spans[sel[j]][1], spans[sel[j]][2], idx>>]
      machine_start_time == machine.start_time
      current_time == IF n = 0 THEN machine.start_time ELSE spans[n][2]
  IN  [all_setup_intervals |-> triples("Set up"),
       all_stamping_intervals |-> triples("Stamping"),
       timeline_records |->
         [k \in 1..n |->
            LET step_idx == (k - 1) % 4
            IN  [Machine |-> MachineName(idx),
                 Elbow |-> ((k - 1) \div (machine.number_of_welds * 4)) + 1,
                 Weld |-> (((k - 1) \div 4) % machine.number_of_welds) + 1,
                 Step |-> step_labels[step_idx + 1],
                 StartTime |-> Round2(spans[k][1]),
                 EndTime |-> Round2(spans[k][2]),
                 Duration |-> Round2(machine.step_durations[step_idx + 1])]],
       machine_run_times |->
         <<MachineName(idx), Round2(current_time - machine_start_time)>>]

MachineTimeline(idx, machine) ==
  MachineRecords(idx, machine, machine.quantity * machine.number_of_welds * 4,
                 CursorLoop(machine, machine.quantity * machine.number_of_welds * 4,
                            machine.start_time, <<>>))

RECURSIVE MachineLoop(_, _, _)
MachineLoop(ms, idx, acc) ==
  IF idx > Len(ms) THEN acc
  ELSE
    LET m == MachineTimeline(idx, ms[idx])
    IN  MachineLoop(ms, idx + 1,
          [all_setup_intervals |-> acc.all_setup_intervals \o m.all_setup_intervals,
           all_stamping_intervals |->
             acc.all_stamping_intervals \o m.all_stamping_intervals,
           timeline_records |-> acc.timeline_records \o m.timeline_records,
           machine_run_times |-> Append(acc.machine_run_times, m.machine_run_times)])

GenerateTimeline(ms) ==
  MachineLoop(ms, 1,
    [all_setup_intervals |-> <<>>, all_stamping_intervals |-> <<>>,
     timeline_records |-> <<>>, machine_run_times |-> <<>>])

\* -------------------------------------------------------- overlap detection
IntersectsClosed(s_start, s_end, t_start, t_end) ==
  ~(s_end < t_start \/ s_start > t_end)

Intersects(s_start, s_end, t_start, t_end) ==
  ~(s_end <= t_start \/ s_start >= t_end)

\* The index pairs (i1, i2) in the order the two nested loops visit them.
LoopPairs(n) == [k \in 1..(n * n) |-> <<((k - 1) \div n) + 1, ((k - 1) % n) + 1>>]

\* The pairs for which the body of the two loops runs, in that order.
Hits(all_intervals) ==
  SelectSeq(LoopPairs(Len(all_intervals)),
            LAMBDA p :
              LET s == all_intervals[p[1]]
                  t == all_intervals[p[2]]
              IN  /\ p[1] < p[2]
                  /\ s[3] # t[3]
                  /\ Intersects(s[1], s[2], t[1], t[2]))

\* Each run of the body appends two regions, one on either machine's row.
OverlapRegions(all_intervals, hits) ==
  [k \in 1..(2 * Len(hits)) |->
     LET p == hits[(k + 1) \div 2]
         s == all_intervals[p[1]]
         t == all_intervals[p[2]]
         overlap_start == Max2(s[1], t[1])
         overlap_end == Min2(s[2], t[2])
     IN  <<overlap_start, overlap_end, (IF k % 2 = 1 THEN s[3] ELSE t[3]) - 1>>]

OverlapCountFirstOnly(all_intervals, hits, machine) ==
  Cardinality({k \in DOMAIN hits : all_intervals[hits[k][1]][3] = machine})

\* Each run of the body adds one to the count of s_machine and one to the count
\* of t_machine; the counts start at 0.
OverlapCount(all_intervals, hits, machine) ==
  0 + Cardinality({k \in DOMAIN hits : all_intervals[hits[k][1]][3] = machine})
    + Cardinality({k \in DOMAIN hits : all_intervals[hits[k][2]][3] = machine})

OverlapResult(all_intervals, hits) ==
      [overlap_regions |-> OverlapRegions(all_intervals, hits),
       machine_overlap_counts |->
         [n \in MachineNames |->
            LET machine == CHOOSE i \in MachineIds : MachineName(i) = n
            IN  OverlapCount(all_intervals, hits, machine)]]

DetectOverlaps(setups, stampings) ==
  OverlapResult(setups \o stampings, Hits(setups \o stampings))

\* --------------------------------------------------- total run time report
\* The loop writes one line per entry of machine_run_times.  The line's second
\* replacement field is {runtime:.2f/60}: the format specification ".2f/60" is
\* valid for neither int nor float, so formatting the first entry raises
\* ValueError and the execution ends there.
RunTimeReport(run_times) == IF Len(run_times) > 0 THEN "ValueError" ELSE "none"

\* ------------------------------------------------------------ downtime report
SetMax(S) == CHOOSE x \in S : \A y \in S : y <= x

\* machine_end_times as the list of its (machine, end_time) items: a machine
\* enters the dict at its first record and keeps the largest End Time seen.
EndTimes(records) ==
  LET firsts == SelectSeq([k \in DOMAIN records |-> k],
                          LAMBDA k : \A j \in 1..(k - 1) :
                                       records[j].Machine # records[k].Machine)
  IN  [j \in DOMAIN firsts |->
         <<records[firsts[j]].Machine,
           SetMax({records[k].EndTime : k \in {x \in DOMAIN records :
                     records[x].Machine = records[firsts[j]].Machine}})>>]

RECURSIVE DowntimeLoop(_, _, _, _)
DowntimeLoop(items, the_max_end_time, k, acc) ==
  IF k > Len(items) THEN acc
  ELSE
    LET downtime == the_max_end_time - items[k][2]
    IN  DowntimeLoop(items, the_max_end_time, k + 1,
          [total_downtime |-> acc.total_downtime + downtime,
           downtime_data |->
             Append(acc.downtime_data,
                    [Machine |-> items[k][1], FinalEndTime |-> items[k][2],
                     Downtime |-> downtime])])

\* Only called with a non-empty list of records.
DowntimeReport(records) ==
  LET the_max_end_time == SetMax({records[k].EndTime : k \in DOMAIN records})
      acc == DowntimeLoop(EndTimes(records), the_max_end_time, 1,
                          [total_downtime |-> 0, downtime_data |-> <<>>])
  IN  [max_end_time |-> the_max_end_time,
       total_downtime |-> acc.total_downtime,
       downtime_data |-> acc.downtime_data]

\* --------------------------------------------------------- overlap type pass
OverlapTypes == {"Setup vs Setup", "Setup vs Stamping", "Stamping vs Stamping"}

InList(x, list) == \E k \in DOMAIN list : list[k] = x

OverlapType(s_type, t, setups, stampings) ==
  IF s_type = "Setup" /\ InList(t, setups) THEN "Setup vs Setup"
  ELSE IF s_type = "Stamping" /\ InList(t, stampings) THEN "Stamping vs Stamping"
  ELSE "Setup vs Stamping"

STypeOf(s, setups) == IF InList(s, setups) THEN "Setup" ELSE "Stamping"

\* The second pass visits the same pairs under the same condition and adds the
\* overlap's duration to the total of its type.
RECURSIVE ClassifyLoop(_, _, _, _, _)
ClassifyLoop(setups, stampings, hits, k, durations) ==
  IF k > Len(hits) THEN durations
  ELSE
    LET all_intervals == setups \o stampings
        s == all_intervals[hits[k][1]]
        t == all_intervals[hits[k][2]]
        overlap_start == Max2(s[1], t[1])
        overlap_end == Min2(s[2], t[2])
        overlap_duration == overlap_end - overlap_start
        o_type == OverlapType(STypeOf(s, setups), t, setups, stampings)
    IN  ClassifyLoop(setups, stampings, hits, k + 1,
                     [durations EXCEPT ![o_type] = @ + overlap_duration])

OverlapTypeDurations(setups, stampings) ==
  ClassifyLoop(setups, stampings, Hits(setups \o stampings), 1,
               [o_type \in OverlapTypes |-> 0])

\* --------------------------------------------------------- utilization grade
\* The percentage as the exact fraction num / den, den > 0.
UtilizationPercent(the_max_end_time, the_total_downtime, total_overlap_time) ==
  IF the_max_end_time > 0
  THEN [num |-> ((the_max_end_time * 4) - the_total_downtime - total_overlap_time) * 100,
        den |-> the_max_end_time * 4]
  ELSE [num |-> 0, den |-> 1]

LetterGrade(percent) ==
  IF percent.num >= 90 * percent.den THEN "A"
  ELSE IF percent.num >= 80 * percent.den THEN "B"
  ELSE IF percent.num >= 70 * percent.den THEN "C"
  ELSE IF percent.num >= 60 * percent.den THEN "D"
  ELSE "F"

SumTypes(durations) ==
  durations["Setup vs Setup"] + durations["Setup vs Stamping"]
    + durations["Stamping vs Stamping"]

\* ---------------------------------------------------------- script execution
\* Everything the Generate block assigns after the run time report.
Report(tl) ==
  LET rep == DowntimeReport(tl.timeline_records)
      types == OverlapTypeDurations(tl.all_setup_intervals, tl.all_stamping_intervals)
      percent == UtilizationPercent(rep.max_end_time, rep.total_downtime, SumTypes(types))
  IN  [downtime_data |-> rep.downtime_data, total_downtime |-> rep.total_downtime,
       max_end_time |-> rep.max_end_time, overlap_type_durations |-> types,
       utilization_percent |-> percent, letter_grade |-> LetterGrade(percent)]

\* A name the execution did not assign is <<>>, an assigned one <<value>>.
NoReport ==
  /\ downtime_data' = <<>>
  /\ total_downtime' = <<>>
  /\ max_end_time' = <<>>
  /\ overlap_type_durations' = <<>>
  /\ utilization_percent' = <<>>
  /\ letter_grade' = <<>>

\* An execution in which the Generate button is not the one pressed: the
\* machine list is rebuilt from the widgets, the Generate block is skipped.
RunWithoutGenerate ==
  /\ machines' = BuildMachines(global_setup', global_stamping', start_time',
                               number_of_welds', quantity', pipe_size', dr')
  /\ warnings' = Warnings(pipe_size', dr')
  /\ generated' = FALSE
  /\ exception' = "none"
  /\ timeline_records' = <<>>
  /\ all_setup_intervals' = <<>>
  /\ all_stamping_intervals' = <<>>
  /\ machine_run_times' = <<>>
  /\ machine_overlap_counts' = <<>>
  /\ overlap_regions' = <<>>
  /\ NoReport

Edit ==
  /\ edits < MaxEdits
  /\ edits' = edits + 1
  /\ UNCHANGED clear

SetGlobalSetup ==
  \E v \in SetupValues \ {global_setup} :
    /\ Edit
    /\ global_setup' = v
    /\ UNCHANGED <<global_stamping, start_time, number_of_welds, quantity, pipe_size, dr>>
    /\ RunWithoutGenerate

SetGlobalStamping ==
  \E v \in StampingValues \ {global_stamping} :
    /\ Edit
    /\ global_stamping' = v
    /\ UNCHANGED <<global_setup, start_time, number_of_welds, quantity, pipe_size, dr>>
    /\ RunWithoutGenerate

SetStartTime ==
  \E i \in MachineIds : \E v \in StartValues \ {start_time[i]} :
    /\ Edit
    /\ start_time' = [start_time EXCEPT ![i] = v]
    /\ UNCHANGED <<global_setup, global_stamping, number_of_welds, quantity, pipe_size, dr>>
    /\ RunWithoutGenerate

SetNumberOfWelds ==
  \E i \in MachineIds : \E v \in WeldOptions \ {number_of_welds[i]} :
    /\ Edit
    /\ number_of_welds' = [number_of_welds EXCEPT ![i] = v]
    /\ UNCHANGED <<global_setup, global_stamping, start_time, quantity, pipe_size, dr>>
    /\ RunWithoutGenerate

SetQuantity ==
  \E i \in MachineIds : \E v \in QuantityValues \ {quantity[i]} :
    /\ Edit
    /\ quantity' = [quantity EXCEPT ![i] = v]
    /\ UNCHANGED <<global_setup, global_stamping, start_time, number_of_welds, pipe_size, dr>>
    /\ RunWithoutGenerate

SetPipeSize ==
  \E i \in MachineIds : \E v \in PipeSizes \ {pipe_size[i]} :
    /\ Edit
    /\ pipe_size' = [pipe_size EXCEPT ![i] = v]
    /\ UNCHANGED <<global_setup, global_stamping, start_time, number_of_welds, quantity, dr>>
    /\ RunWithoutGenerate

SetDR ==
  \E i \in MachineIds : \E v \in DRs \ {dr[i]} :
    /\ Edit
    /\ dr' = [dr EXCEPT ![i] = v]
    /\ UNCHANGED <<global_setup, global_stamping, start_time, number_of_welds, quantity, pipe_size>>
    /\ RunWithoutGenerate

ClearChart ==
  /\ clear' = TRUE
  /\ UNCHANGED <<widgets, edits>>
  /\ RunWithoutGenerate

GenerateChart ==
  /\ clear' = FALSE
  /\ UNCHANGED <<widgets, edits>>
  /\ machines' = BuildMachines(global_setup, global_stamping, start_time,
                               number_of_welds, quantity, pipe_size, dr)
  /\ warnings' = Warnings(pipe_size, dr)
  /\ generated' = TRUE
  /\ \E tl \in {GenerateTimeline(machines')} :
     \E det \in {DetectOverlaps(tl.all_setup_intervals, tl.all_stamping_intervals)} :
     \E raised \in {RunTimeReport(tl.machine_run_times)} :
         /\ timeline_records' = tl.timeline_records
         /\ all_setup_intervals' = tl.all_setup_intervals
         /\ all_stamping_intervals' = tl.all_stamping_intervals
         /\ machine_run_times' = tl.machine_run_times
         /\ overlap_regions' = det.overlap_regions
         /\ machine_overlap_counts' = det.machine_overlap_counts
         /\ exception' = raised
         /\ IF raised = "none"
            THEN LET r == Report(tl)
                 IN  /\ downtime_data' = <<r.downtime_data>>
                     /\ total_downtime' = <<r.total_downtime>>
                     /\ max_end_time' = <<r.max_end_time>>
                     /\ overlap_type_durations' = <<r.overlap_type_durations>>
                     /\ utilization_percent' = <<r.utilization_percent>>
                     /\ letter_grade' = <<r.letter_grade>>
            ELSE NoReport

Init ==
  /\ global_setup = DefaultSetup
  /\ global_stamping = DefaultStamping
  /\ start_time = [i \in MachineIds |-> (i - 1) * DefaultSetup]
  /\ number_of_welds = [i \in MachineIds |-> DefaultWelds]
  /\ quantity = [i \in MachineIds |-> DefaultQuantity]
  /\ pipe_size = [i \in MachineIds |-> SetMin(PipeSizes)]
  /\ dr = [i \in MachineIds |-> SetMin(DRs)]
  /\ clear = FALSE
  /\ edits = 0
  /\ machines = BuildMachines(global_setup, global_stamping, start_time,
                              number_of_welds, quantity, pipe_size, dr)
  /\ warnings = Warnings(pipe_size, dr)
  /\ generated = FALSE
  /\ exception = "none"
  /\ timeline_records = <<>>
  /\ all_setup_intervals = <<>>
  /\ all_stamping_intervals = <<>>
  /\ machine_run_times = <<>>
  /\ machine_overlap_counts = <<>>
  /\ overlap_regions = <<>>
  /\ downtime_data = <<>>
  /\ total_downtime = <<>>
  /\ max_end_time = <<>>
  /\ overlap_type_durations = <<>>
  /\ utilization_percent = <<>>
  /\ letter_grade = <<>>

Next ==
  \/ SetGlobalSetup
  \/ SetGlobalStamping
  \/ SetStartTime
  \/ SetNumberOfWelds
  \/ SetQuantity
  \/ SetPipeSize
  \/ SetDR
  \/ ClearChart
  \/ GenerateChart

Spec == Init /\ [][Next]_vars

\* ======================================================================
\* Properties
\* ======================================================================
MachineIndex(name) == CHOOSE i \in MachineIds : MachineName(i) = name

RecordsOf(records, i) ==
  SelectSeq(records, LAMBDA rec : rec.Machine = MachineName(i))

OperatorSteps == {"Set up", "Stamping"}

\* The unordered pairs of Set up / Stamping intervals of different machines
\* whose half-open spans intersect, as index pairs of the timeline.
OverlappingPairs(records) ==
  LET G == {k \in DOMAIN records : records[k].Step \in OperatorSteps}
  IN  {p \in G \X G :
         /\ p[1] < p[2]
         /\ records[p[1]].Machine # records[p[2]].Machine
         /\ records[p[1]].StartTime < records[p[2]].EndTime
         /\ records[p[2]].StartTime < records[p[1]].EndTime}

\* The two regions an overlap of records a and b is recorded as.
RegionsOf(a, b) ==
  LET lo == Max2(a.StartTime, b.StartTime)
      hi == Min2(a.EndTime, b.EndTime)
  IN  {<<lo, hi, MachineIndex(a.Machine) - 1>>, <<lo, hi, MachineIndex(b.Machine) - 1>>}

C1Holds(records, R, P) ==
  /\ Len(R) = 2 * Cardinality(P)
  /\ \A p \in P :
       Cardinality({j \in 1..(Len(R) \div 2) :
                      {R[2 * j - 1], R[2 * j]} = RegionsOf(records[p[1]], records[p[2]])}) = 1
  /\ \A j \in 1..(Len(R) \div 2) : R[2 * j - 1][3] # R[2 * j][3]
  /\ \A k \in DOMAIN R : R[k][1] < R[k][2]

\* C1: after Generate, the recorded overlaps are exactly the pairs of Set up /
\* Stamping intervals of different machines with i.start < j.end and
\* j.start < i.end, each recorded once (as one region per machine) over
\* [max start, min end), never for one machine, never for a pair that only
\* touches, never for a Weld start or Cooling interval, and never empty.
C1_OverlapsExact ==
  generated =>
    C1Holds(timeline_records, overlap_regions, OverlappingPairs(timeline_records))

\* A run in which an overlap is recorded and two operator intervals of
\* different machines touch at a boundary.
C1_Witness ==
  /\ generated
  /\ Len(overlap_regions) > 0
  /\ \E a, b \in DOMAIN timeline_records :
       /\ timeline_records[a].Step \in OperatorSteps
       /\ timeline_records[b].Step \in OperatorSteps
       /\ timeline_records[a].Machine # timeline_records[b].Machine
       /\ timeline_records[a].EndTime = timeline_records[b].StartTime

C2Machine(i, recs, cfg, run) ==
  LET n == cfg.quantity * cfg.number_of_welds * 4
      d == cfg.step_durations
  IN  /\ Len(recs) = n
      /\ recs[1].StartTime = cfg.start_time
      /\ \A k \in 1..(n - 1) : recs[k + 1].StartTime = recs[k].EndTime
      /\ \A k \in 1..n :
           /\ recs[k].EndTime > recs[k].StartTime
           /\ recs[k].Elbow = ((k - 1) \div (4 * cfg.number_of_welds)) + 1
           /\ recs[k].Weld = (((k - 1) \div 4) % cfg.number_of_welds) + 1
           /\ recs[k].Step = step_labels[((k - 1) % 4) + 1]
      /\ run = <<MachineName(i),
                 cfg.quantity * cfg.number_of_welds * (d[1] + d[2] + d[3] + d[4])>>

\* C2: every machine's timeline starts at its start time, is gap-free, has no
\* zero-width interval, is emitted in the order elbow, weld, step, and its total
\* run time is quantity x welds x (sum of the four step durations).
C2_TimelineGapFree ==
  generated =>
    /\ Len(machine_run_times) = NumMachines
    /\ \A i \in MachineIds :
         C2Machine(i, RecordsOf(timeline_records, i), machines[i], machine_run_times[i])

\* A run with a machine that starts late and makes several elbows with several welds.
C2_Witness ==
  /\ generated
  /\ \E i \in MachineIds :
       /\ machines[i].start_time > 0
       /\ machines[i].quantity > 1
       /\ machines[i].number_of_welds > 1
       /\ Len(RecordsOf(timeline_records, i)) > 4

Participations(R, i) ==
  Cardinality({j \in 1..(Len(R) \div 2) : R[2 * j - 1][3] = i - 1 \/ R[2 * j][3] = i - 1})

\* C5: each machine's overlap count is the number of recorded overlaps it takes
\* part in, and the four counts sum to twice the number of recorded overlaps.
C5_CountsMatchRecords ==
  generated =>
    /\ \A i \in MachineIds :
         machine_overlap_counts[MachineName(i)] = Participations(overlap_regions, i)
    /\ machine_overlap_counts["Machine 1"] + machine_overlap_counts["Machine 2"]
         + machine_overlap_counts["Machine 3"] + machine_overlap_counts["Machine 4"]
         = 2 * (Len(overlap_regions) \div 2)
    /\ Len(overlap_regions) % 2 = 0

\* A run with recorded overlaps.
C5_Witness ==
  /\ generated
  /\ Len(overlap_regions) >= 4
  /\ \E i \in MachineIds : machine_overlap_counts[MachineName(i)] >= 2

HasRow(p, d) == \E k \in DOMAIN lookup_table :
                  lookup_table[k].PipeSize = p /\ lookup_table[k].DR = d

\* C8: a machine whose (Pipe Size, DR) has no row gets Weld start = Cooling = 10,
\* is still in the machine list, the others keep the durations of their own
\* rows, and Generate makes a timeline for all four machines.
C8_LookupMissDefaults ==
  /\ DOMAIN machines = MachineIds
  /\ \A i \in MachineIds :
       /\ ~HasRow(pipe_size[i], dr[i]) =>
            machines[i].step_durations =
              <<Minutes(global_setup), Minutes(10), Minutes(global_stamping), Minutes(10)>>
       /\ \A k \in DOMAIN lookup_table :
            (lookup_table[k].PipeSize = pipe_size[i] /\ lookup_table[k].DR = dr[i]) =>
              machines[i].step_durations =
                <<Minutes(global_setup), lookup_table[k].WeldStart,
                  Minutes(global_stamping), lookup_table[k].Cooling>>
       /\ generated =>
            Len(RecordsOf(timeline_records, i))
              = 4 * machines[i].quantity * machines[i].number_of_welds

\* A Generate run in which one machine has no row and another has one.
C8_Witness ==
  /\ generated
  /\ \E i, j \in MachineIds :
       /\ ~HasRow(pipe_size[i], dr[i])
       /\ HasRow(pipe_size[j], dr[j])
       /\ Len(RecordsOf(timeline_records, i)) > 0

\* ----------------------------------------------------------------------
\* The report that follows the run time report
\* ----------------------------------------------------------------------
RunTime(i) == machine_run_times[i][2]

MaxRunTime == CHOOSE x \in {RunTime(i) : i \in MachineIds} :
                \A i \in MachineIds : RunTime(i) <= x

TotalRunTime == RunTime(1) + RunTime(2) + RunTime(3) + RunTime(4)

RECURSIVE SumDowntime(_, _)
SumDowntime(data, k) ==
  IF k > Len(data) THEN 0 ELSE data[k].Downtime + SumDowntime(data, k + 1)

\* The durations of the recorded overlaps, each overlap (two regions) once.
RECURSIVE SumOverlaps(_, _)
SumOverlaps(R, j) ==
  IF 2 * j > Len(R) THEN 0
  ELSE (R[2 * j][2] - R[2 * j][1]) + SumOverlaps(R, j + 1)

\* C3: the reported downtime of every machine is the largest total run time of
\* any machine minus the machine's own total run time, and is never negative.
C3_DowntimeFromRunTimes ==
  generated =>
    /\ Len(downtime_data) = 1
    /\ \A i \in MachineIds :
         \E k \in DOMAIN downtime_data[1] :
           /\ downtime_data[1][k].Machine = MachineName(i)
           /\ downtime_data[1][k].Downtime = MaxRunTime - RunTime(i)
           /\ downtime_data[1][k].Downtime >= 0

RECURSIVE Gcd(_, _)
Gcd(a, b) == IF b = 0 THEN a ELSE Gcd(b, a % b)

Abs(x) == IF x < 0 THEN 0 - x ELSE x

\* Two fractions with positive denominators are the same number.
SameFraction(n1, d1, n2, d2) ==
  /\ n1 \div Gcd(Abs(n1), d1) = n2 \div Gcd(Abs(n2), d2)
  /\ d1 \div Gcd(Abs(n1), d1) = d2 \div Gcd(Abs(n2), d2)

\* C4: the utilization percentage of a Generate run is
\* 100 x (sum of run times - sum of downtimes - sum of overlap durations)
\*     / (sum of run times).
C4_UtilizationOverRunTimes ==
  generated =>
    /\ Len(utilization_percent) = 1
    /\ Len(downtime_data) = 1
    /\ SameFraction(utilization_percent[1].num, utilization_percent[1].den,
                    100 * (TotalRunTime - SumDowntime(downtime_data[1], 1)
                             - SumOverlaps(overlap_regions, 1)),
                    TotalRunTime)

PairType(a, b) ==
  IF a.Step = "Set up" /\ b.Step = "Set up" THEN "Setup vs Setup"
  ELSE IF a.Step = "Stamping" /\ b.Step = "Stamping" THEN "Stamping vs Stamping"
  ELSE "Setup vs Stamping"

RECURSIVE SumPairs(_, _)
SumPairs(records, P) ==
  IF P = {} THEN 0
  ELSE LET p == CHOOSE x \in P : TRUE
       IN  (Min2(records[p[1]].EndTime, records[p[2]].EndTime)
              - Max2(records[p[1]].StartTime, records[p[2]].StartTime))
           + SumPairs(records, P \ {p})

\* C6: the type breakdown adds the duration of every overlap of the first pass
\* exactly once, to the type given by the unordered pair of step categories, so
\* the three totals sum to the durations of all recorded overlaps.
C6_TypeBreakdown ==
  generated =>
    /\ Len(overlap_type_durations) = 1
    /\ \A o_type \in OverlapTypes :
         overlap_type_durations[1][o_type] =
           SumPairs(timeline_records,
                    {p \in OverlappingPairs(timeline_records) :
                       PairType(timeline_records[p[1]], timeline_records[p[2]]) = o_type})
    /\ SumTypes(overlap_type_durations[1]) = SumOverlaps(overlap_regions, 1)

\* C7: a Generate run assigns exactly one letter grade, by the percentage:
\* A iff >= 90, B iff in [80, 90), C iff in [70, 80), D iff in [60, 70), F iff < 60.
C7_GradeBuckets ==
  generated =>
    /\ Len(utilization_percent) = 1
    /\ Len(letter_grade) = 1
    /\ LET num == utilization_percent[1].num
           den == utilization_percent[1].den
           g == letter_grade[1]
       IN  /\ g \in {"A", "B", "C", "D", "F"}
           /\ g = "A" <=> num >= 90 * den
           /\ g = "B" <=> (num >= 80 * den /\ num < 90 * den)
           /\ g = "C" <=> (num >= 70 * den /\ num < 80 * den)
           /\ g = "D" <=> (num >= 60 * den /\ num < 70 * den)
           /\ g = "F" <=> num < 60 * den

\* C10: for every admissible input the utilization percentage of a Generate run
\* lies between 0 and 100 inclusive.
C10_UtilizationInRange ==
  generated =>
    /\ Len(utilization_percent) = 1
    /\ utilization_percent[1].num >= 0
    /\ utilization_percent[1].num <= 100 * utilization_percent[1].den

====
